---- MODULE Spec2Model ----
(***************************************************************************)
(* Zotero.RecognizePDF (chrome/content/zotero/xpcom/recognizePDF.js):      *)
(* the row table, the pending queue, the listeners and the asynchronous   *)
(* _processQueue loop.  JavaScript runs a handler to its next await        *)
(* without interruption, so one action is one such run: a public call,    *)
(* or the continuation of one _processQueue invocation after an await.    *)
(* SpecPipeline steps through one run of _processItem and _recognize,      *)
(* from await to await, against the part of the document store it writes.  *)
(***************************************************************************)
EXTENDS Integers, Sequences, FiniteSets, Bags, TLC

\* ---------------------------------------------------------------- bounds
MaxId == 2        \* document ids are 1..MaxId
MaxStarts == 2    \* _processQueue invocations suspended on the schema promise at once
MaxBatch == 2     \* items passed to one recognizeItems call
MaxPages == 2     \* pages in the extractor's output (the source asks for MAX_PAGES = 5)
MaxCollections == 2   \* collections of the library

\* ------------------------------------------------------ program constants
ROW_QUEUED == 1
ROW_PROCESSING == 2
ROW_FAILED == 3
ROW_SUCCEEDED == 4

\* item ids are positive, so `if (!itemID) break` (line 208) leaves the loop
\* exactly when _queue.shift() found the queue empty
Ids == 1..MaxId
EventNames == {"rowadded", "rowupdated", "rowdeleted", "nonempty", "empty"}

\* Zotero.getString(key) is modelled by its key.
MsgProcessing == "recognizePDF.processing"
MsgNoMatches == "recognizePDF.noMatches"
MsgError == "recognizePDF.error"
\* newItem.getField('title') of the item the pipeline produced
NewItemTitle == "newItem.title"
\* item.getField('title') of the attachment with this id
FileName(id) == <<"title", id>>

\* The Zotero.Exception.Alert errors the pipeline throws (lines 246, 297,
\* 369), each named by its message.
Alerts == {"recognizePDF.fileNotFound", "recognizePDF.couldNotRead", "recognizePDF.noOCR"}

\* What `await _processItem(itemID)` settles to where the pipeline is not
\* stepped through: a new item, null, a thrown error that is no Alert (named
\* by its raw text) or a thrown Alert.  The loop treats every Alert alike
\* (line 228), so one stands for the three.
Outcomes == {"newItem", "null", "error", "recognizePDF.fileNotFound"}

VARIABLES
    _listeners,        \* names that have a callback registered
    _rows,             \* sequence of rows, display order
    _queue,            \* sequence of ids
    _queueProcessing,  \* the single-flight flag
    starts,            \* number of _processQueue invocations suspended at line 196
    loops,             \* bag of the invocations suspended inside the while loop
    schemaReady,       \* Zotero.Schema.schemaUpdatePromise is resolved
    offline,           \* Zotero.HTTP.browserIsOffline()
    events             \* listener callbacks invoked by the last handler, in order

\* One run of _processItem, and the part of the document store it works on.
VARIABLES
    pc,                 \* the await the run is suspended at; "idle" before, "done" after
    outcome,            \* what the run settled to; "" while it has not
    itemExists,         \* Zotero.Items.getAsync(itemID) finds the attachment
    parentID,           \* the attachment's stored parent: "none", "other" or "newItem"
    itemCollections,    \* the collections the attachment is in
    json,               \* what extractJSON returned: per page, whether it has text
    res,                \* the response of the recognition service
    queries,            \* requests made to the recognition service
    entered,            \* resolver branches entered
    newItem,            \* the branch that made the new item; "" while there is none
    saved,              \* the new item's persistence: "none", "pending", "saved", "failed"
    newItemCollections, \* the collections the new item is stored in
    tx                  \* the open transaction's uncommitted writes, NoTx when none is open

pvars == <<pc, outcome, itemExists, parentID, itemCollections, json, res, queries, entered,
           newItem, saved, newItemCollections, tx>>

vars == <<_listeners, _rows, _queue, _queueProcessing, starts, loops, schemaReady, offline, events,
          pvars>>

\* An invocation suspended inside the loop: pc is "sleep" (line 203) or
\* "pipeline" (line 213, with the itemID it awaits); Returned stands for an
\* invocation that left the loop.
Sleeping == [pc |-> "sleep", itemID |-> 0]
InPipeline(itemID) == [pc |-> "pipeline", itemID |-> itemID]
Returned == [pc |-> "returned", itemID |-> 0]

\* ---------------------------------------------------------------- helpers
\* The rows and the queue a handler works on, with the callbacks it has
\* invoked so far.
Work(rows, queue) == [rows |-> rows, queue |-> queue, events |-> <<>>]

\* _listeners[name] && _listeners[name](ev)
Fire(name, ev) == IF name \in _listeners THEN <<ev>> ELSE <<>>

Event(name, id, status, message) ==
    [name |-> name, id |-> id, status |-> status, message |-> message]

\* index of the first row with this id, 0 when there is none
IndexOf(rows, itemID) ==
    IF \E i \in DOMAIN rows : rows[i].id = itemID
    THEN CHOOSE i \in DOMAIN rows :
            /\ rows[i].id = itemID
            /\ \A j \in DOMAIN rows : rows[j].id = itemID => i <= j
    ELSE 0

RemoveAt(s, i) == SubSeq(s, 1, i - 1) \o SubSeq(s, i + 1, Len(s))

\* ------------------------------------------------------- row table (pure)
\* _deleteRow that notifies the listener but does not splice the row out
DeleteRowKeepsRow(W, itemID) ==
    LET i == IndexOf(W.rows, itemID) IN
    IF i = 0 THEN W
    ELSE [W EXCEPT !.events = W.events \o Fire("rowdeleted", Event("rowdeleted", itemID, 0, ""))]

_deleteRow(W, itemID) ==
    LET i == IndexOf(W.rows, itemID) IN
    IF i = 0 THEN W
    ELSE [W EXCEPT !.rows = RemoveAt(W.rows, i),
                   !.events = W.events \o Fire("rowdeleted", Event("rowdeleted", itemID, 0, ""))]

_updateRow(W, itemID, status, message) ==
    LET i == IndexOf(W.rows, itemID) IN
    IF i = 0 THEN W
    ELSE [W EXCEPT !.rows = [W.rows EXCEPT ![i].status = status, ![i].message = message],
                   !.events = W.events \o Fire("rowupdated", Event("rowupdated", itemID, status, message))]

\* the row _addItem creates (lines 130-135)
NewRow(id) == [id |-> id, status |-> ROW_QUEUED, fileName |-> FileName(id), message |-> ""]

\* _addItem without the `return null` of line 126: a Queued or Processing
\* row does not stop the insertion
AddItemNoReturn(W, id) ==
    LET i == IndexOf(W.rows, id)
        D == IF i # 0 /\ W.rows[i].status > ROW_PROCESSING THEN _deleteRow(W, id) ELSE W
        rows == <<NewRow(id)>> \o D.rows
    IN [rows |-> rows,
        queue |-> <<id>> \o D.queue,
        events |-> D.events
                    \o Fire("rowadded", Event("rowadded", id, ROW_QUEUED, ""))
                    \o (IF Len(rows) = 1 THEN Fire("nonempty", Event("nonempty", 0, 0, "")) ELSE <<>>)]

\* _addItem with _rows.push(row) in place of _rows.unshift(row)
AddItemPushesRow(W, id) ==
    LET i == IndexOf(W.rows, id) IN
    IF i # 0 /\ ~(W.rows[i].status > ROW_PROCESSING) THEN W
    ELSE
        LET D == IF i # 0 THEN _deleteRow(W, id) ELSE W
            rows == D.rows \o <<NewRow(id)>>
        IN [rows |-> rows,
            queue |-> <<id>> \o D.queue,
            events |-> D.events
                        \o Fire("rowadded", Event("rowadded", id, ROW_QUEUED, ""))
                        \o (IF Len(rows) = 1 THEN Fire("nonempty", Event("nonempty", 0, 0, "")) ELSE <<>>)]

_addItem(W, id) ==
    LET i == IndexOf(W.rows, id) IN
    IF i # 0 /\ ~(W.rows[i].status > ROW_PROCESSING) THEN W
    ELSE
        LET D == IF i # 0 THEN _deleteRow(W, id) ELSE W
            rows == <<NewRow(id)>> \o D.rows
        IN [rows |-> rows,
            queue |-> <<id>> \o D.queue,
            events |-> D.events
                        \o Fire("rowadded", Event("rowadded", id, ROW_QUEUED, ""))
                        \o (IF Len(rows) = 1 THEN Fire("nonempty", Event("nonempty", 0, 0, "")) ELSE <<>>)]

RECURSIVE AddItems(_, _)
AddItems(W, items) ==
    IF items = <<>> THEN W ELSE AddItems(_addItem(W, Head(items)), Tail(items))

\* ------------------------------------------------------------ the loop
\* One run of the while loop of _processQueue from its head to the next
\* await or to the break: the work, the flag and where the invocation is.
\* the loop without the browserIsOffline() test of line 202
LoopRunIgnoresOffline(W) ==
    IF W.queue = <<>>
    THEN [W |-> W, flag |-> FALSE, proc |-> Returned]
    ELSE LET itemID == Head(W.queue) IN
         [W |-> _updateRow([W EXCEPT !.queue = Tail(W.queue)], itemID, ROW_PROCESSING, MsgProcessing),
          flag |-> TRUE,
          proc |-> InPipeline(itemID)]

\* the loop that leaves through the empty queue without line 235
LoopRunKeepsFlag(W) ==
    IF offline
    THEN [W |-> W, flag |-> TRUE, proc |-> Sleeping]
    ELSE IF W.queue = <<>>
    THEN [W |-> W, flag |-> TRUE, proc |-> Returned]
    ELSE LET itemID == Head(W.queue) IN
         [W |-> _updateRow([W EXCEPT !.queue = Tail(W.queue)], itemID, ROW_PROCESSING, MsgProcessing),
          flag |-> TRUE,
          proc |-> InPipeline(itemID)]

LoopRun(W) ==
    IF offline
    THEN [W |-> W, flag |-> TRUE, proc |-> Sleeping]
    ELSE IF W.queue = <<>>
    THEN [W |-> W, flag |-> FALSE, proc |-> Returned]
    ELSE LET itemID == Head(W.queue) IN
         [W |-> _updateRow([W EXCEPT !.queue = Tail(W.queue)], itemID, ROW_PROCESSING, MsgProcessing),
          flag |-> TRUE,
          proc |-> InPipeline(itemID)]

\* the final update without the else branch of lines 218-220
FinalUpdateSkipsNull(W, itemID, o) ==
    IF o = "newItem" THEN _updateRow(W, itemID, ROW_SUCCEEDED, NewItemTitle)
    ELSE IF o = "null" THEN W
    ELSE _updateRow(W, itemID, ROW_FAILED, IF o \in Alerts THEN o ELSE MsgError)

\* the final update with e.message for every thrown error
FinalUpdateRawMessage(W, itemID, o) ==
    IF o = "newItem" THEN _updateRow(W, itemID, ROW_SUCCEEDED, NewItemTitle)
    ELSE IF o = "null" THEN _updateRow(W, itemID, ROW_FAILED, MsgNoMatches)
    ELSE _updateRow(W, itemID, ROW_FAILED, o)

\* the _updateRow call that follows `await _processItem(itemID)`
FinalUpdate(W, itemID, o) ==
    IF o = "newItem" THEN _updateRow(W, itemID, ROW_SUCCEEDED, NewItemTitle)
    ELSE IF o = "null" THEN _updateRow(W, itemID, ROW_FAILED, MsgNoMatches)
    ELSE _updateRow(W, itemID, ROW_FAILED, IF o \in Alerts THEN o ELSE MsgError)

\* the loops with the invocations in `gone` resumed and suspended again at l
Resumed(gone, l) ==
    (loops (-) gone) (+) (IF l = Returned THEN EmptyBag ELSE SetToBag({l}))

Commit(gone, R) ==
    /\ _rows' = R.W.rows
    /\ _queue' = R.W.queue
    /\ events' = R.W.events
    /\ _queueProcessing' = R.flag
    /\ loops' = Resumed(gone, R.proc)

\* ---------------------------------------------------------------- Init
\* no transaction is open
NoTx == [open |-> FALSE, added |-> {}, parent |-> FALSE]
\* no response yet, or a response that is null
NoRes == [present |-> FALSE, doi |-> FALSE, isbn |-> FALSE, title |-> FALSE, authors |-> FALSE]

\* no run of _processItem is being stepped through
PipelineIdle ==
    /\ pc = "idle"
    /\ outcome = ""
    /\ itemExists = FALSE
    /\ parentID = "none"
    /\ itemCollections = {}
    /\ json = <<>>
    /\ res = NoRes
    /\ queries = 0
    /\ entered = {}
    /\ newItem = ""
    /\ saved = "none"
    /\ newItemCollections = {}
    /\ tx = NoTx

Init ==
    /\ _listeners = {}
    /\ _rows = <<>>
    /\ _queue = <<>>
    /\ _queueProcessing = FALSE
    /\ starts = 0
    /\ loops = EmptyBag
    /\ schemaReady = FALSE
    /\ offline \in BOOLEAN
    /\ events = <<>>
    /\ PipelineIdle

\* -------------------------------------------------------------- actions
addListener(name) ==
    /\ _listeners' = _listeners \cup {name}
    /\ events' = <<>>
    /\ UNCHANGED <<_rows, _queue, _queueProcessing, starts, loops, schemaReady, offline, pvars>>

removeListener(name) ==
    /\ _listeners' = _listeners \ {name}
    /\ events' = <<>>
    /\ UNCHANGED <<_rows, _queue, _queueProcessing, starts, loops, schemaReady, offline, pvars>>

\* recognizeItems: every _addItem, then _processQueue() up to its first await
recognizeItems(items) ==
    /\ starts < MaxStarts
    /\ starts' = starts + 1
    /\ LET W == AddItems(Work(_rows, _queue), items) IN
        /\ _rows' = W.rows
        /\ _queue' = W.queue
        /\ events' = W.events
    /\ UNCHANGED <<_listeners, _queueProcessing, loops, schemaReady, offline, pvars>>

cancel ==
    /\ _queue' = <<>>
    /\ _rows' = <<>>
    /\ events' = Fire("empty", Event("empty", 0, 0, ""))
    /\ UNCHANGED <<_listeners, _queueProcessing, starts, loops, schemaReady, offline, pvars>>

\* _processQueue that does not test _queueProcessing after the await
ProcessQueueStartUnguarded ==
    /\ starts > 0
    /\ schemaReady
    /\ starts' = starts - 1
    /\ Commit(EmptyBag, LoopRun(Work(_rows, _queue)))
    /\ UNCHANGED <<_listeners, schemaReady, offline, pvars>>

\* _processQueue after `await Zotero.Schema.schemaUpdatePromise`
ProcessQueueStart ==
    /\ starts > 0
    /\ schemaReady
    /\ starts' = starts - 1
    /\ IF _queueProcessing
       THEN /\ events' = <<>>
            /\ UNCHANGED <<_rows, _queue, _queueProcessing, loops>>
       ELSE Commit(EmptyBag, LoopRun(Work(_rows, _queue)))
    /\ UNCHANGED <<_listeners, schemaReady, offline, pvars>>

\* _processQueue after `await Zotero.Promise.delay(OFFLINE_RECHECK_DELAY)`
ProcessQueueWake ==
    /\ BagIn(Sleeping, loops)
    /\ Commit(SetToBag({Sleeping}), LoopRun(Work(_rows, _queue)))
    /\ UNCHANGED <<_listeners, starts, schemaReady, offline, pvars>>

\* the loop without the try/catch of lines 212-232: a thrown error ends the
\* invocation where it is
SettledWithoutCatch(itemID, o) ==
    /\ BagIn(InPipeline(itemID), loops)
    /\ IF o \in {"newItem", "null"}
       THEN Commit(SetToBag({InPipeline(itemID)}),
                   LoopRun(FinalUpdate(Work(_rows, _queue), itemID, o)))
       ELSE /\ loops' = loops (-) SetToBag({InPipeline(itemID)})
            /\ events' = <<>>
            /\ UNCHANGED <<_rows, _queue, _queueProcessing>>
    /\ UNCHANGED <<_listeners, starts, schemaReady, offline>>

\* _processQueue after `await _processItem(itemID)` settled
Settled(itemID, o) ==
    /\ BagIn(InPipeline(itemID), loops)
    /\ Commit(SetToBag({InPipeline(itemID)}),
              LoopRun(FinalUpdate(Work(_rows, _queue), itemID, o)))
    /\ UNCHANGED <<_listeners, starts, schemaReady, offline>>

\* the same, where the run of _processItem is not stepped through
ProcessQueueSettle(itemID, o) ==
    /\ Settled(itemID, o)
    /\ UNCHANGED pvars

\* environment: the schema update finishes; connectivity changes
SchemaUpdated ==
    /\ ~schemaReady
    /\ schemaReady' = TRUE
    /\ events' = <<>>
    /\ UNCHANGED <<_listeners, _rows, _queue, _queueProcessing, starts, loops, offline, pvars>>

SetOffline(b) ==
    /\ offline # b
    /\ offline' = b
    /\ events' = <<>>
    /\ UNCHANGED <<_listeners, _rows, _queue, _queueProcessing, starts, loops, schemaReady, pvars>>

\* ------------------------------------------------- one run of _processItem
\* One action is the run from one await of _processItem, _recognize,
\* extractJSON or _query to the next.  A promise that settles a pending
\* await resumes the awaiting function at once, so the run that ends
\* _processItem goes on into the loop (lines 213-233 and back to 201).
Collections == 1..MaxCollections
PageSeqs == UNION {[1..n -> BOOLEAN] : n \in 0..MaxPages}
Responses ==
    {r \in [present : BOOLEAN, doi : BOOLEAN, isbn : BOOLEAN, title : BOOLEAN, authors : BOOLEAN] :
        ~r.present => r = NoRes}

\* the loop of lines 360-366
RECURSIVE containingTextPages(_)
containingTextPages(pages) ==
    IF pages = <<>> THEN 0
    ELSE (IF Head(pages) THEN 1 ELSE 0) + containingTextPages(Tail(pages))

lvars == <<_listeners, _rows, _queue, _queueProcessing, starts, loops, schemaReady, offline>>

\* the run is suspended at the await p
Awaits(p) ==
    /\ pc' = p
    /\ outcome' = outcome
    /\ events' = <<>>
    /\ UNCHANGED lvars

\* _processItem returns or throws o, and the loop resumes with it.  A thrown
\* error that is no Alert is named "error: " and the call that threw it.
Settles(o) ==
    /\ pc' = "done"
    /\ outcome' = o
    /\ \E itemID \in Ids : Settled(itemID, o)

\* `await Zotero.Items.getAsync(itemID)` (line 244)
GetAsyncSettles ==
    /\ pc = "getAsync"
    /\ IF ~itemExists \/ parentID # "none"
       THEN Settles("recognizePDF.fileNotFound")
       ELSE Awaits("getFilePath")
    /\ UNCHANGED <<itemExists, parentID, itemCollections, json, res, queries, entered, newItem, saved,
                   newItemCollections, tx>>

\* `await item.getFilePath()` (line 357), then extractJSON up to its exec
GetFilePathSettles(ok) ==
    /\ pc = "getFilePath"
    /\ IF ok THEN Awaits("exec") ELSE Settles("error: getFilePath")
    /\ UNCHANGED <<itemExists, parentID, itemCollections, json, res, queries, entered, newItem, saved,
                   newItemCollections, tx>>

\* `await Zotero.Utilities.Internal.exec(exec, args)` (line 289)
ExecSettles(ok) ==
    /\ pc = "exec"
    /\ IF ok THEN Awaits("getContentsAsync") ELSE Settles("recognizePDF.couldNotRead")
    /\ UNCHANGED <<itemExists, parentID, itemCollections, json, res, queries, entered, newItem, saved,
                   newItemCollections, tx>>

\* the extractor's output as read back: not readable or not JSON; JSON
\* with no pages array; JSON with pages
Contents ==
    {[parsed |-> FALSE, hasPages |-> FALSE, pages |-> <<>>],
     [parsed |-> TRUE, hasPages |-> FALSE, pages |-> <<>>]}
        \cup {[parsed |-> TRUE, hasPages |-> TRUE, pages |-> p] : p \in PageSeqs}

\* the same with the test of line 368 made after the request was sent
GetContentsQueriesFirst(c) ==
    /\ pc = "getContentsAsync"
    /\ IF ~c.parsed
       THEN /\ Settles("recognizePDF.couldNotRead")
            /\ UNCHANGED <<json, queries>>
       ELSE IF ~c.hasPages
       THEN /\ Settles("error: json.pages")
            /\ UNCHANGED <<json, queries>>
       ELSE /\ json' = c.pages
            /\ queries' = queries + 1
            /\ IF containingTextPages(c.pages) = 0
               THEN Settles("recognizePDF.noOCR")
               ELSE Awaits("makeRequest")
    /\ UNCHANGED <<itemExists, parentID, itemCollections, res, entered, newItem, saved,
                   newItemCollections, tx>>

\* `await Zotero.File.getContentsAsync(cacheFile.path)` and JSON.parse (lines
\* 290-298), the page count (360-370), where `for (let page of json.pages)`
\* throws a TypeError when there is no pages array, and _query up to its
\* request (331)
GetContentsSettles(c) ==
    /\ pc = "getContentsAsync"
    /\ IF ~c.parsed
       THEN /\ Settles("recognizePDF.couldNotRead")
            /\ UNCHANGED <<json, queries>>
       ELSE IF ~c.hasPages
       THEN /\ Settles("error: json.pages")
            /\ UNCHANGED <<json, queries>>
       ELSE /\ json' = c.pages
            /\ IF containingTextPages(c.pages) = 0
               THEN /\ Settles("recognizePDF.noOCR")
                    /\ UNCHANGED queries
               ELSE /\ queries' = queries + 1
                    /\ Awaits("makeRequest")
    /\ UNCHANGED <<itemExists, parentID, itemCollections, res, entered, newItem, saved,
                   newItemCollections, tx>>

\* the branch the resolver goes to from the test of line 422, 395 or 377;
\* "null" is the `return null` of line 466
FromTitle(r) == IF r.title THEN "title" ELSE "null"
FromISBN(r) == IF r.isbn THEN "isbn" ELSE FromTitle(r)
\* the resolver with the ISBN test ahead of the DOI test
FromDOITestsISBNFirst(r) == IF r.isbn THEN "isbn" ELSE IF r.doi THEN "doi" ELSE FromTitle(r)
FromDOI(r) == IF r.doi THEN "doi" ELSE FromISBN(r)

\* _recognize from the test of branch b to its next await: the lookup of
\* lines 383 or 400; in the title branch the construction of lines 424-460,
\* where `for (let author of res.authors)` throws a TypeError on a response
\* without authors, and the awaited save of line 462
Enter(b, r) ==
    IF b = "null"
    THEN /\ Settles("null")
         /\ UNCHANGED <<entered, newItem, saved>>
    ELSE /\ entered' = entered \cup {b}
         /\ IF b = "doi" THEN Awaits("translateDOI") /\ UNCHANGED <<newItem, saved>>
            ELSE IF b = "isbn" THEN Awaits("translateISBN") /\ UNCHANGED <<newItem, saved>>
            ELSE IF r.authors
                 THEN newItem' = "title" /\ saved' = "pending" /\ Awaits("saveTx")
                 ELSE newItem' = "title" /\ saved' = saved /\ Settles("error: res.authors")

\* `await client.makeRequest(...)` and JSON.parse (lines 331-348): a failed
\* request or an unparsable body throws Error("Request error"); a null
\* response returns null (line 375)
MakeRequestSettles(ok, r) ==
    /\ pc = "makeRequest"
    /\ IF ~ok
       THEN /\ Settles("error: Request error")
            /\ UNCHANGED <<res, entered, newItem, saved>>
       ELSE /\ res' = r
            /\ IF ~r.present
               THEN /\ Settles("null")
                    /\ UNCHANGED <<entered, newItem, saved>>
               ELSE Enter(FromDOI(r), r)
    /\ UNCHANGED <<itemExists, parentID, itemCollections, json, queries, newItemCollections, tx>>

\* _recognize returns the item a lookup found: saveTx() is called and not
\* awaited (lines 387, 413), and _processItem goes on to its transaction
\* (lines 250-253)
Found(b) ==
    /\ newItem' = b
    /\ saved' = "pending"
    /\ Awaits("executeTransaction")
    /\ UNCHANGED entered

\* `await _promiseTranslate(translateDOI, libraryID)` (lines 383-392): no
\* item found is an Error, caught like every other at line 390
TranslateDOISettles(found) ==
    /\ pc = "translateDOI"
    /\ IF found THEN Found("doi") ELSE Enter(FromISBN(res), res)
    /\ UNCHANGED <<itemExists, parentID, itemCollections, json, res, queries, newItemCollections, tx>>

\* `await translate.translate(...)` (lines 400-419): an empty result and a
\* thrown error both fall out of the branch
TranslateISBNSettles(found) ==
    /\ pc = "translateISBN"
    /\ IF found THEN Found("isbn") ELSE Enter(FromTitle(res), res)
    /\ UNCHANGED <<itemExists, parentID, itemCollections, json, res, queries, newItemCollections, tx>>

\* `await newItem.saveTx()` (line 462)
TitleSaveSettles(ok) ==
    /\ pc = "saveTx"
    /\ IF ok
       THEN saved' = "saved" /\ Awaits("executeTransaction")
       ELSE saved' = "failed" /\ Settles("error: saveTx")
    /\ UNCHANGED <<itemExists, parentID, itemCollections, json, res, queries, entered, newItem,
                   newItemCollections, tx>>

\* the save started at line 387 or 413 ends; nothing awaits it
SaveTxSettles(ok) ==
    /\ saved = "pending"
    /\ pc # "saveTx"
    /\ saved' = IF ok THEN "saved" ELSE "failed"
    /\ events' = <<>>
    /\ UNCHANGED <<lvars, pc, outcome, itemExists, parentID, itemCollections, json, res, queries,
                   entered, newItem, newItemCollections, tx>>

\* Zotero.DB.executeTransaction, by the persistence contract: the writes made
\* inside the function reach the store together when it returns, and none
\* of them does when it throws.
TxBegin == [open |-> TRUE, added |-> {}, parent |-> FALSE]
TxAddItem(t, c) == [t EXCEPT !.added = t.added \cup {c}]
TxSave(t) == [t EXCEPT !.parent = TRUE]
TxCommit(t) ==
    /\ newItemCollections' = newItemCollections \cup t.added
    /\ parentID' = IF t.parent THEN "newItem" ELSE parentID
    /\ tx' = NoTx
TxRollback ==
    /\ tx' = NoTx
    /\ UNCHANGED <<newItemCollections, parentID>>

\* the collections of itemCollections not yet added, and the one the loop
\* of line 254 takes next
ToAdd(t) == itemCollections \ t.added
NextCollection(t) == CHOOSE c \in ToAdd(t) : \A d \in ToAdd(t) : c <= d

\* inside the transaction function: the await of line 256 while a
\* collection is left, then the await of line 261
InTransaction(t) == IF ToAdd(t) # {} THEN Awaits("addItem") ELSE Awaits("save")

\* the transaction opens and its function starts (line 253)
ExecuteTransactionSettles(ok) ==
    /\ pc = "executeTransaction"
    /\ IF ok
       THEN tx' = TxBegin /\ InTransaction(TxBegin)
       ELSE tx' = tx /\ Settles("error: executeTransaction")
    /\ UNCHANGED <<itemExists, parentID, itemCollections, json, res, queries, entered, newItem,
                   saved, newItemCollections>>

\* collection.addItem that writes to the store at once, as it does outside
\* a transaction
AddItemOutsideTransaction(ok) ==
    /\ pc = "addItem"
    /\ IF ok
       THEN /\ tx' = TxAddItem(tx, NextCollection(tx))
            /\ newItemCollections' = newItemCollections \cup {NextCollection(tx)}
            /\ parentID' = parentID
            /\ InTransaction(TxAddItem(tx, NextCollection(tx)))
       ELSE TxRollback /\ Settles("error: addItem")
    /\ UNCHANGED <<itemExists, itemCollections, json, res, queries, entered, newItem, saved>>

\* `await collection.addItem(newItem.id)` (lines 254-257)
AddItemSettles(ok) ==
    /\ pc = "addItem"
    /\ IF ok
       THEN /\ tx' = TxAddItem(tx, NextCollection(tx))
            /\ UNCHANGED <<newItemCollections, parentID>>
            /\ InTransaction(TxAddItem(tx, NextCollection(tx)))
       ELSE TxRollback /\ Settles("error: addItem")
    /\ UNCHANGED <<itemExists, itemCollections, json, res, queries, entered, newItem, saved>>

\* `item.parentID = newItem.id; await item.save()` (lines 260-261)
ItemSaveSettles(ok) ==
    /\ pc = "save"
    /\ IF ok
       THEN /\ tx' = TxSave(tx)
            /\ UNCHANGED <<newItemCollections, parentID>>
            /\ Awaits("commit")
       ELSE TxRollback /\ Settles("error: save")
    /\ UNCHANGED <<itemExists, itemCollections, json, res, queries, entered, newItem, saved>>

\* the transaction function returned: the commit, and `return newItem`
\* (line 264)
CommitSettles(ok) ==
    /\ pc = "commit"
    /\ IF ok
       THEN TxCommit(tx) /\ Settles("newItem")
       ELSE TxRollback /\ Settles("error: commit")
    /\ UNCHANGED <<itemExists, itemCollections, json, res, queries, entered, newItem, saved>>

\* The loop has taken the one enqueued id, and _processItem awaits the
\* attachment, which is missing, a child item or a top-level item in some
\* of the collections.
InitPipeline ==
    /\ _listeners = {}
    /\ starts = 0
    /\ schemaReady = TRUE
    /\ offline = FALSE
    /\ \E itemID \in Ids :
          LET R == LoopRun(AddItems(Work(<<>>, <<>>), <<itemID>>)) IN
            /\ _rows = R.W.rows
            /\ _queue = R.W.queue
            /\ events = R.W.events
            /\ _queueProcessing = R.flag
            /\ loops = SetToBag({R.proc})
    /\ pc = "getAsync"
    /\ outcome = ""
    /\ itemExists \in BOOLEAN
    /\ parentID \in IF itemExists THEN {"none", "other"} ELSE {"none"}
    /\ itemCollections \in IF itemExists THEN SUBSET Collections ELSE {{}}
    /\ json = <<>>
    /\ res = NoRes
    /\ queries = 0
    /\ entered = {}
    /\ newItem = ""
    /\ saved = "none"
    /\ newItemCollections = {}
    /\ tx = NoTx

NextPipeline ==
    \/ GetAsyncSettles
    \/ \E ok \in BOOLEAN : GetFilePathSettles(ok)
    \/ \E ok \in BOOLEAN : ExecSettles(ok)
    \/ \E c \in Contents : GetContentsSettles(c)
    \/ \E ok \in BOOLEAN, r \in Responses : MakeRequestSettles(ok, r)
    \/ \E found \in BOOLEAN : TranslateDOISettles(found)
    \/ \E found \in BOOLEAN : TranslateISBNSettles(found)
    \/ \E ok \in BOOLEAN : TitleSaveSettles(ok)
    \/ \E ok \in BOOLEAN : SaveTxSettles(ok)
    \/ \E ok \in BOOLEAN : ExecuteTransactionSettles(ok)
    \/ \E ok \in BOOLEAN : AddItemSettles(ok)
    \/ \E ok \in BOOLEAN : ItemSaveSettles(ok)
    \/ \E ok \in BOOLEAN : CommitSettles(ok)

SpecPipeline == InitPipeline /\ [][NextPipeline]_vars

Batches == UNION {[1..n -> Ids] : n \in 0..MaxBatch}

Next ==
    \/ \E name \in EventNames : addListener(name)
    \/ \E name \in EventNames : removeListener(name)
    \/ \E items \in Batches : recognizeItems(items)
    \/ cancel
    \/ ProcessQueueStart
    \/ ProcessQueueWake
    \/ \E itemID \in Ids, o \in Outcomes : ProcessQueueSettle(itemID, o)
    \/ SchemaUpdated
    \/ \E b \in BOOLEAN : SetOffline(b)

Spec == Init /\ [][Next]_vars

\* The same program with no callback ever registered: every notification is
\* skipped (lines 109, 140, 144, 160, 181) and events stays empty.
NextQueue ==
    \/ \E items \in Batches : recognizeItems(items)
    \/ cancel
    \/ ProcessQueueStart
    \/ ProcessQueueWake
    \/ \E itemID \in Ids, o \in Outcomes : ProcessQueueSettle(itemID, o)
    \/ SchemaUpdated
    \/ \E b \in BOOLEAN : SetOffline(b)

SpecQueue == Init /\ [][NextQueue]_vars

\* What the scheduling gives the loop: the schema promise resolves; a
\* settled promise resumes its awaiter; every pipeline run ends; the browser
\* does not stay offline for ever, and the loop, which looks at the
\* connection only when its delay fires, finds it up on some such occasion.
Fairness ==
    /\ WF_vars(SchemaUpdated)
    /\ WF_vars(ProcessQueueStart)
    /\ WF_vars(\E itemID \in Ids, o \in Outcomes : ProcessQueueSettle(itemID, o))
    /\ WF_vars(SetOffline(FALSE))
    /\ SF_vars(~offline /\ ProcessQueueWake)

SpecFair == Init /\ [][NextQueue]_vars /\ Fairness

\* The program when cancel is never called.
NextNoCancel ==
    \/ \E items \in Batches : recognizeItems(items)
    \/ ProcessQueueStart
    \/ ProcessQueueWake
    \/ \E itemID \in Ids, o \in Outcomes : ProcessQueueSettle(itemID, o)
    \/ SchemaUpdated
    \/ \E b \in BOOLEAN : SetOffline(b)

SpecNoCancel == Init /\ [][NextNoCancel]_vars /\ Fairness

\* The same again with a callback registered for every event before the
\* first call, so that events shows every notification.
InitNotified ==
    /\ _listeners = EventNames
    /\ _rows = <<>>
    /\ _queue = <<>>
    /\ _queueProcessing = FALSE
    /\ starts = 0
    /\ loops = EmptyBag
    /\ schemaReady = FALSE
    /\ offline \in BOOLEAN
    /\ events = <<>>
    /\ PipelineIdle

SpecNotified == InitNotified /\ [][NextQueue]_vars

\* ------------------------------------------------------------- properties
Rows == DOMAIN _rows
Terminal == {ROW_FAILED, ROW_SUCCEEDED}
Active == {ROW_QUEUED, ROW_PROCESSING}
Pending(id) == \E k \in DOMAIN _queue : _queue[k] = id
HasRow(id, statuses) == \E i \in Rows : _rows[i].id = id /\ _rows[i].status \in statuses
InLoop == BagCardinality(loops)

\* C1: ids are dequeued in the order they were enqueued.  _addItem puts
\* every new row at index 1 (line 137), so of two rows the one with the larger
\* index was enqueued earlier: no row is Processing while a row enqueued
\* before it is still Queued and pending.
C1_DequeuedInEnqueueOrder ==
    \A i, j \in Rows :
        (i < j /\ _rows[j].status = ROW_QUEUED /\ Pending(_rows[j].id))
            => _rows[i].status # ROW_PROCESSING

\* C2: single-flight.  At most one _processQueue invocation is inside the
\* while loop, and while one is inside the flag is set, so that every other
\* invocation resuming from line 196 returns at line 198.
C2_SingleFlight ==
    /\ InLoop <= 1
    /\ InLoop = 1 => _queueProcessing

\* a loop is running, there is work it has not taken, and several start
\* requests are suspended on the schema promise at once
C2_Witness ==
    /\ InLoop = 1
    /\ starts >= 2
    /\ schemaReady
    /\ _queue # <<>>

\* C3: the row table holds at most one row per document id.
C3_OneRowPerId ==
    \A i, j \in Rows : _rows[i].id = _rows[j].id => i = j

\* a table of two rows in which an id that already ran to a terminal status
\* sits behind an id enqueued after it
C3_Witness ==
    /\ Len(_rows) >= 2
    /\ _rows[1].status = ROW_QUEUED
    /\ _rows[2].status \in Terminal

\* C4: every id in the pending queue has a row that is Queued or
\* Processing, and no id occurs in the pending queue twice.
C4_PendingIdsHaveActiveRows ==
    /\ \A k \in DOMAIN _queue : HasRow(_queue[k], Active)
    /\ \A k, l \in DOMAIN _queue : _queue[k] = _queue[l] => k = l

\* what one step may do to the row of an id: r before, n after
AllowedStep(r, n) ==
    \/ n.status = r.status /\ (r.status \in Terminal => n.message = r.message)
    \/ r.status = ROW_QUEUED /\ n.status = ROW_PROCESSING
    \/ r.status = ROW_PROCESSING /\ n.status \in Terminal
    \/ r.status \in Terminal /\ n.status = ROW_QUEUED /\ n.message = ""

\* C5: a row's status only moves Queued -> Processing -> Failed or
\* Succeeded.  Between two successive states the row of an id keeps its
\* status (and, once terminal, its message), or goes Queued -> Processing or
\* Processing -> terminal; an id with a terminal row shows Queued again only
\* as the fresh row _addItem creates (empty message).
C5_StatusOnlyAdvances ==
    [][\A i \in DOMAIN _rows, j \in DOMAIN _rows' :
          _rows[i].id = _rows'[j].id => AllowedStep(_rows[i], _rows'[j])]_vars

\* C6: enqueuing ids whose rows are Queued or Processing leaves the row
\* table and the pending queue as they were and invokes no listener.
C6_EnqueueOfActiveIdIsNoOp ==
    [][\A items \in Batches :
          (/\ items # <<>>
           /\ \A k \in DOMAIN items : HasRow(items[k], Active)
           /\ recognizeItems(items))
              => (_rows' = _rows /\ _queue' = _queue /\ events' = <<>>)]_vars

\* every listener is registered, the row of id 1 is Processing, and
\* recognizeItems([1]) can be called
C6_Witness ==
    /\ _listeners = EventNames
    /\ HasRow(1, {ROW_PROCESSING})
    /\ ENABLED recognizeItems(<<1>>)

\* the rows of the other ids, in order
Without(rows, id) == SelectSeq(rows, LAMBDA r : r.id # id)

\* C7: enqueuing an id whose row is Failed or Succeeded removes that row,
\* puts a fresh Queued row with the empty message at index 1, puts the id
\* on the pending queue, leaves exactly one row for the id, and invokes the
\* registered listeners in the order rowdeleted, rowadded (nonempty last,
\* when the terminal row was the only row).
C7_EnqueueOfTerminalIdReplacesRow ==
    [][\A id \in Ids :
          (HasRow(id, Terminal) /\ recognizeItems(<<id>>))
              => /\ _rows' = <<NewRow(id)>> \o Without(_rows, id)
                 /\ Len(SelectSeq(_rows', LAMBDA r : r.id = id)) = 1
                 /\ _queue' = <<id>> \o _queue
                 /\ events' = Fire("rowdeleted", Event("rowdeleted", id, 0, ""))
                                \o Fire("rowadded", Event("rowadded", id, ROW_QUEUED, ""))
                                \o (IF Len(_rows) = 1
                                    THEN Fire("nonempty", Event("nonempty", 0, 0, ""))
                                    ELSE <<>>)]_vars

\* the last handler invoked rowdeleted and then rowadded for the same id,
\* whose row is now the Queued row at index 1
C7_Witness ==
    /\ Len(events) >= 2
    /\ events[1].name = "rowdeleted"
    /\ events[2].name = "rowadded"
    /\ events[2].id = events[1].id
    /\ _rows # <<>>
    /\ _rows[1] = NewRow(events[1].id)

\* the step set the row of id to Processing and changed no other row
MarkedProcessing(id) ==
    /\ Len(_rows') = Len(_rows)
    /\ \A i \in Rows :
          _rows'[i] = IF _rows[i].id = id
                      THEN [_rows[i] EXCEPT !.status = ROW_PROCESSING, !.message = MsgProcessing]
                      ELSE _rows[i]

\* C8: while the browser is offline the loop takes nothing off the pending
\* queue and marks no row Processing: resuming from the schema promise or
\* from the delay it changes no row and goes (back) to sleep, and after a
\* final update it leaves the queue alone and sleeps.  Resuming from the
\* delay online, it takes the id at the head of the queue as it stands,
\* marks that row Processing and changes no other row.
C8_OfflineLoopOnlySleeps ==
    [][/\ (offline /\ ProcessQueueWake)
            => (_rows' = _rows /\ _queue' = _queue /\ loops' = loops)
       /\ (offline /\ ProcessQueueStart /\ ~_queueProcessing)
            => (_rows' = _rows /\ _queue' = _queue /\ loops' = loops (+) SetToBag({Sleeping}))
       /\ \A itemID \in Ids, o \in Outcomes :
            (offline /\ ProcessQueueSettle(itemID, o))
                => /\ _queue' = _queue
                   /\ BagIn(Sleeping, loops')
                   /\ \A j \in DOMAIN _rows' :
                         _rows'[j].status = ROW_PROCESSING => _rows'[j] = _rows[j]
       /\ (~offline /\ ProcessQueueWake /\ _queue # <<>>)
            => /\ _queue' = Tail(_queue)
               /\ BagIn(InPipeline(Head(_queue)), loops')
               /\ MarkedProcessing(Head(_queue))]_vars

\* the loop sleeps offline with the flag set while two ids wait, both Queued
C8_Witness ==
    /\ offline
    /\ BagIn(Sleeping, loops)
    /\ _queueProcessing
    /\ Len(_queue) = 2
    /\ \A i \in Rows : _rows[i].status = ROW_QUEUED

\* the loop awaits the pipeline of itemID and the row it marked is gone
Cancelled(itemID) ==
    /\ BagIn(InPipeline(itemID), loops)
    /\ ~HasRow(itemID, {ROW_PROCESSING})

\* C9: cancel empties the row table and the pending queue and invokes the
\* empty listener; and once cancel has removed the row an in-flight
\* pipeline was working on, the update made when that pipeline settles
\* changes no row and invokes no rowupdated listener.  (Only cancel removes
\* a Processing row, so an in-flight itemID without a Processing row is one
\* whose row was cancelled.)
C9_CancelledPipelineUpdatesNothing ==
    [][/\ cancel => /\ _rows' = <<>>
                    /\ _queue' = <<>>
                    /\ ("empty" \in _listeners => events' = <<Event("empty", 0, 0, "")>>)
       /\ \A itemID \in Ids, o \in Outcomes :
            (Cancelled(itemID) /\ ProcessQueueSettle(itemID, o))
                => FinalUpdate(Work(_rows, _queue), itemID, o) = Work(_rows, _queue)]_vars

\* C10: at most one row is Processing, and it is the row of the id whose
\* pipeline the loop is awaiting.
C10_OneProcessingRow ==
    /\ Cardinality({i \in Rows : _rows[i].status = ROW_PROCESSING}) <= 1
    /\ \A i \in Rows :
          _rows[i].status = ROW_PROCESSING => BagIn(InPipeline(_rows[i].id), loops)

\* the loop finished one id and is now working on the other
C10_Witness ==
    /\ Len(_rows) = 2
    /\ \E i, j \in Rows :
          /\ _rows[i].status \in Terminal
          /\ _rows[j].status = ROW_PROCESSING
          /\ BagIn(InPipeline(_rows[j].id), loops)

\* the status and the message the claim gives a row for outcome o
StatusFor(o) == IF o = "newItem" THEN ROW_SUCCEEDED ELSE ROW_FAILED
MessageFor(o) ==
    IF o = "newItem" THEN NewItemTitle
    ELSE IF o = "null" THEN MsgNoMatches
    ELSE IF o \in Alerts THEN o
    ELSE MsgError

\* C11: when the pipeline of a dequeued id ends and the id has a row, the
\* row is updated to the status and message the outcome determines: a new
\* item gives Succeeded with its title, null gives Failed with the no-matches
\* message, an Alert gives Failed with the Alert's message, any other error
\* gives Failed with the generic message, which is not the error's text.
\* The rowupdated listener is called first with exactly that status and
\* message, and the row shows them afterwards unless the same run of the
\* loop took the id off the queue again and marked it Processing.
C11_FinalStatusFollowsOutcome ==
    [][\A itemID \in Ids, o \in Outcomes :
          ((\E i \in Rows : _rows[i].id = itemID) /\ ProcessQueueSettle(itemID, o))
              => /\ events' # <<>>
                 /\ events'[1] = Event("rowupdated", itemID, StatusFor(o), MessageFor(o))
                 /\ (o \notin ({"newItem", "null"} \cup Alerts) => events'[1].message # o)
                 /\ \A j \in DOMAIN _rows' :
                       _rows'[j].id = itemID
                           => \/ /\ _rows'[j].status = StatusFor(o)
                                 /\ _rows'[j].message = MessageFor(o)
                              \/ /\ _rows'[j].status = ROW_PROCESSING
                                 /\ BagIn(InPipeline(itemID), loops')
                                 /\ Len(events') = 2]_vars

\* a pipeline has just ended with an error that is no Alert, and the
\* listener was told Failed with the generic message
C11_Witness ==
    /\ events # <<>>
    /\ events[1] = Event("rowupdated", events[1].id, ROW_FAILED, MsgError)
    /\ HasRow(events[1].id, {ROW_FAILED})

\* the outcomes that are thrown errors
Thrown == Outcomes \ {"newItem", "null"}

\* C12: a pipeline failure neither stops the loop nor touches other items.
\* When the pipeline of itemID throws, the row of itemID is marked Failed,
\* no row is added or removed, and the loop goes on as after a success:
\* offline it sleeps and leaves the queue alone; with an empty queue it
\* returns and clears the flag; otherwise it takes the head of the queue,
\* marks that row Processing and awaits its pipeline.  Every other row is
\* as it was, the rest of the queue is as it was, and the failed id is not
\* put on the queue.
C12_FailureLeavesOthersAlone ==
    [][\A itemID \in Ids, o \in Thrown :
          ProcessQueueSettle(itemID, o)
              => LET taken == IF ~offline /\ _queue # <<>> THEN {Head(_queue)} ELSE {} IN
                 /\ _queue' = (IF taken = {} THEN _queue ELSE Tail(_queue))
                 /\ _queueProcessing' = (offline \/ _queue # <<>>)
                 /\ loops' = (loops (-) SetToBag({InPipeline(itemID)}))
                                (+) (IF offline THEN SetToBag({Sleeping})
                                     ELSE SetToBag({InPipeline(id) : id \in taken}))
                 /\ Len(_rows') = Len(_rows)
                 /\ \A i \in Rows :
                       _rows'[i] =
                           IF _rows[i].id \in taken
                           THEN [_rows[i] EXCEPT !.status = ROW_PROCESSING, !.message = MsgProcessing]
                           ELSE IF _rows[i].id = itemID
                           THEN [_rows[i] EXCEPT !.status = ROW_FAILED, !.message = MessageFor(o)]
                           ELSE _rows[i]]_vars

\* one id has failed with the generic message and the loop is awaiting the
\* pipeline of another
C12_Witness ==
    /\ \E i, j \in Rows :
          /\ _rows[i].status = ROW_FAILED
          /\ _rows[i].message = MsgError
          /\ _rows[j].status = ROW_PROCESSING
          /\ BagIn(InPipeline(_rows[j].id), loops)
    /\ _queueProcessing

\* C13: materialization is all-or-nothing.  In every state the store
\* shows, either the new item is in every collection of the attachment and
\* the attachment's parent is the new item, or the new item is in no
\* collection and the attachment's parent is not the new item; so also
\* after a failure between the collection additions and the save of the
\* parent assignment.
C13_MaterializationIsAllOrNothing ==
    \/ parentID = "newItem" /\ newItemCollections = itemCollections
    \/ parentID # "newItem" /\ newItemCollections = {}

\* the save of the parent assignment failed after every collection of an
\* attachment in two collections had been added
C13_Witness ==
    /\ pc = "done"
    /\ outcome = "error: save"
    /\ Cardinality(itemCollections) = 2
    /\ tx = NoTx
    /\ parentID = "none"
    /\ newItemCollections = {}

\* the run has ended by throwing
Failed == pc = "done" /\ outcome \notin {"newItem", "null"}

\* C14: the pipeline of an item is one unit of work.  When it ends in
\* failure nothing it wrote remains in the store: no new item is saved or
\* being saved, the new item is in no collection and the attachment's parent
\* is not the new item.
C14_FailedRunLeavesNothing ==
    Failed => /\ saved \notin {"pending", "saved"}
              /\ newItemCollections = {}
              /\ parentID # "newItem"

\* the extractor's output has been read, and no page of it has text
ExtractedNoText ==
    /\ pc \notin {"idle", "getAsync", "getFilePath", "exec", "getContentsAsync"}
    /\ outcome \notin {"recognizePDF.fileNotFound", "error: getFilePath", "recognizePDF.couldNotRead",
                      "error: json.pages"}
    /\ containingTextPages(json) = 0

\* C15: when every extracted page has empty text the run fails with the
\* no-OCR Alert and makes no request to the recognition service, neither
\* before the failure nor after it; and the no-OCR Alert is thrown in no
\* other case.
C15_NoOCRMeansNoQuery ==
    /\ ExtractedNoText => (pc = "done" /\ outcome = "recognizePDF.noOCR" /\ queries = 0)
    /\ outcome = "recognizePDF.noOCR" => (ExtractedNoText /\ queries = 0)

\* the extractor returned two pages, both without text, and the run has
\* ended with the no-OCR Alert, which is the row's message
C15_Witness ==
    /\ Len(json) = 2
    /\ \A i \in DOMAIN json : ~json[i]
    /\ outcome = "recognizePDF.noOCR"
    /\ \E i \in Rows : _rows[i].status = ROW_FAILED /\ _rows[i].message = "recognizePDF.noOCR"

\* the errors thrown by a write to the store: the awaited save of the new
\* item and the steps of the materialization transaction
StoreErrors ==
    {"error: saveTx", "error: executeTransaction", "error: addItem", "error: save", "error: commit"}

\* the response carries a DOI and a title and no ISBN, and the DOI lookup
\* has failed
DOIFailedTitleLeft ==
    /\ res.present /\ res.doi /\ res.title /\ ~res.isbn
    /\ "doi" \in entered
    /\ pc # "translateDOI"
    /\ newItem # "doi"

\* C16: when the response carries a DOI and a title, no ISBN, and the DOI
\* lookup fails, the item does not fail: the run that ends without a failed
\* write to the store ends with the item built from the title fields, saved
\* and returned, and the row Succeeded.
C16_DOIFailureFallsToTitle ==
    (DOIFailedTitleLeft /\ pc = "done" /\ outcome \notin StoreErrors)
        => /\ outcome = "newItem"
           /\ newItem = "title"
           /\ saved = "saved"
           /\ \A i \in Rows : _rows[i].status = ROW_SUCCEEDED

\* the place of a branch in the resolver, and the branches whose field the
\* response carries
Rank(b) == IF b = "doi" THEN 1 ELSE IF b = "isbn" THEN 2 ELSE 3
Carried == {b \in {"doi", "isbn", "title"} : res[b]}

\* C17 as stated: at most one resolver branch is entered for an item.
C17_AtMostOneBranchEntered ==
    Cardinality(entered) <= 1

\* C17 as amended: the branches are entered in the order DOI, ISBN, title,
\* each only if the response carries its field and only after every branch
\* carried before it was entered and failed; no branch is entered after one
\* has yielded the item, so at most one branch yields it; and the ISBN
\* lookup of a response with a DOI is attempted only after the DOI lookup
\* has failed.
C17_BranchesTriedInOrderUntilOneYields ==
    /\ entered \subseteq Carried
    /\ \A b \in entered : \A a \in Carried : Rank(a) < Rank(b) => a \in entered
    /\ newItem # "" => (newItem \in entered /\ \A b \in entered : Rank(b) <= Rank(newItem))
    /\ pc = "translateDOI" => (entered = {"doi"} /\ newItem = "")
    /\ pc = "translateISBN" => ("title" \notin entered /\ newItem = "")
    /\ ("doi" \in entered /\ "isbn" \in entered) => newItem # "doi"

\* the DOI lookup failed, the ISBN lookup found the item, and the run
\* returned it
C17_Witness ==
    /\ entered = {"doi", "isbn"}
    /\ newItem = "isbn"
    /\ outcome = "newItem"

\* _recognize has returned the new item and _processItem is in its
\* materialization step (lines 250-262)
Materializing == pc \in {"executeTransaction", "addItem", "save", "commit"}

\* C18: in every resolver branch the save of the new item has completed
\* when _recognize returns it: while the materialization step runs, and
\* when the run has returned the new item, the new item is saved, neither
\* still being saved nor failed to save.
C18_SavedBeforeMaterialization ==
    (Materializing \/ outcome = "newItem") => saved = "saved"

\* C19: no queued work is lost.  When cancel is never called, the
\* connection comes back and every pipeline run ends, each id that has a
\* Queued or Processing row comes to have a Failed or Succeeded row, however
\* the calls of recognizeItems interleave with the loop.
C19_EveryEnqueuedIdReachesTerminal ==
    \A id \in Ids : HasRow(id, Active) ~> HasRow(id, Terminal)

\* a call of recognizeItems
Enqueues == \E items \in Batches : recognizeItems(items)

\* C20: the loop terminates, and terminates cleanly.  A step in which an
\* invocation leaves the loop leaves the queue empty and the flag cleared,
\* in that one step; the flag is never set while no invocation is in the
\* loop; a start request that finds the flag cleared enters the loop (and is
\* in it afterwards unless it found the browser online and the queue empty);
\* and when recognizeItems is called only finitely often, the connection
\* comes back and every pipeline run ends, the program comes to rest with
\* no invocation in the loop, the queue empty and the flag cleared.
C20_LoopTerminatesWithFlagCleared ==
    /\ [][InLoop' < InLoop => (_queue' = <<>> /\ ~_queueProcessing')]_vars
    /\ [](InLoop = 0 => ~_queueProcessing)
    /\ [][(ProcessQueueStart /\ ~_queueProcessing)
            => \/ InLoop' = 1 /\ _queueProcessing'
               \/ ~offline /\ _queue = <<>> /\ InLoop' = 0 /\ ~_queueProcessing']_vars
    /\ (<>[][~Enqueues]_vars) => <>[](InLoop = 0 /\ _queue = <<>> /\ ~_queueProcessing)

\* the loop has processed an id and returned, and a start request made
\* since is about to find the flag cleared
C20_Witness ==
    /\ InLoop = 0
    /\ ~_queueProcessing
    /\ \E i \in Rows : _rows[i].status \in Terminal
    /\ _queue # <<>>
    /\ starts > 0
    /\ schemaReady

====
